---------------------------- MODULE Spec2Model ----------------------------
(***************************************************************************)
(* A model of the `based` crate: custom positional numeral systems with   *)
(* single-character digits.                                               *)
(*                                                                         *)
(*   - Base (src/src/single_base.rs, src/src/lib.rs): the digit table     *)
(*     `base` and the reverse lookup `vals`, built by FromStr::from_str   *)
(*     (rejects duplicates) or by Base::new (does not check).             *)
(*   - decode (decode! macro and the usize impl): multiply-add over the   *)
(*     characters in a usize accumulator, then a checked narrowing.       *)
(*   - encode (usize impl, small_uint!, large_uint!, iint!): repeated     *)
(*     modulo/divide, digits pushed on a stack which is then reversed.    *)
(*                                                                         *)
(* The two loops are modelled one iteration per step, so that the number  *)
(* of iterations is something the model can speak about.                  *)
(*                                                                         *)
(* Integer widths are scaled: a type of 2^k bytes has k + MinBits bits,   *)
(* which keeps u8 < u16 < u32 < u64 = usize < u128 and every value, wrap  *)
(* and range check enumerable.  All machine arithmetic is done modulo the *)
(* scaled width.                                                           *)
(***************************************************************************)
EXTENDS Integers, Sequences, FiniteSets, TLC

(***************************************************************************)
(* Bounds of the model.                                                    *)
(***************************************************************************)
\* bits of a one-byte type; each doubling of the size adds one bit
MinBits == 1
\* longest string handed to decode by a caller
MaxRepLen == 4
\* the digit stack of encode is not grown beyond this (radix-1 loop)
MaxStack == 7

(***************************************************************************)
(* Characters and strings.  A string is a sequence of characters.         *)
(***************************************************************************)
\* characters callers put into strings; "x" is in no alphabet
RepChars == {"a", "b", "c", "x"}

\* the source strings alphabets are built from
SourceStrings ==
    { <<>>,
      <<"a">>,
      <<"a", "b">>,
      <<"b", "c", "a">>,
      <<"a", "a">>,
      <<"a", "b", "a">>,
      <<"b", "a", "c", "a">>,
      <<"a", "b", "c", "c">> }

SeqsUpTo(S, n) == UNION { [1..k -> S] : k \in 0..n }

RepStrings == SeqsUpTo(RepChars, MaxRepLen)

RECURSIVE Reverse(_)
Reverse(s) == IF s = <<>> THEN <<>> ELSE Append(Reverse(Tail(s)), Head(s))

(***************************************************************************)
(* The integer types of the width-dispatch surface.                       *)
(***************************************************************************)
UnsignedTypes == {"u8", "u16", "u32", "u64", "u128", "usize"}
SignedTypes == {"i8", "i16", "i32", "i64", "i128", "isize"}
Types == UnsignedTypes \cup SignedTypes

\* size of usize in bytes (a 64-bit target)
PtrBytes == 8

\* std::mem::size_of::<T>()
SizeOf(T) ==
    CASE T \in {"u8", "i8"} -> 1
      [] T \in {"u16", "i16"} -> 2
      [] T \in {"u32", "i32"} -> 4
      [] T \in {"u64", "i64"} -> 8
      [] T \in {"u128", "i128"} -> 16
      [] T \in {"usize", "isize"} -> PtrBytes

\* the scaled width of T in bits
Bits(T) == MinBits + (CHOOSE k \in 0..4 : 2^k = SizeOf(T))

IsSigned(T) == T \in SignedTypes

\* T::MAX and T::MIN
MaxOf(T) == IF IsSigned(T) THEN 2^(Bits(T) - 1) - 1 ELSE 2^Bits(T) - 1
MinOf(T) == IF IsSigned(T) THEN 0 - 2^(Bits(T) - 1) ELSE 0

Values(T) == MinOf(T)..MaxOf(T)

UsizeMax == MaxOf("usize")


(***************************************************************************)
(* Results.  Result<T, StrError>, Result<String, TryFromIntError> and     *)
(* Result<Base, DuplicateCharacterError>.                                  *)
(***************************************************************************)
NoResult == [kind |-> "None"]
OkInt(n) == [kind |-> "Ok", int |-> n]
OkStr(s) == [kind |-> "Ok", str |-> s]
\* StrError::Try(TryFromIntError) from decode, TryFromIntError from encode
ErrTry == [kind |-> "Err", err |-> "Try"]
\* StrError::UnknownChar(c)
ErrUnknownChar(c) == [kind |-> "Err", err |-> "UnknownChar", ch |-> c]

DuplicateCharacterError(c, first, second) ==
    [kind |-> "Err", dup |-> c, first |-> first, second |-> second]

NoCall == [op |-> "none"]

(***************************************************************************)
(* State.                                                                  *)
(***************************************************************************)
VARIABLES
    overflow_checks, \* build profile: TRUE panics on integer overflow, FALSE wraps
    base,            \* Base.base: Vec<char>, the digit table
    vals,            \* Base.vals: HashMap<char, usize>
    ctor,            \* the construction call and what it returned
    pc,              \* "init", "rejected", "idle", "decode", "encode",
                     \* "returned", "panic"
    call,            \* the conversion call in progress or last returned
    prev,            \* the call whose result was fed to `call`, if any
    rep,             \* decode: the characters not yet consumed
    val,             \* decode: the accumulator; encode: the value being encoded
    radix,           \* the local `radix`
    rem,             \* encode: the local `rem`
    div,             \* encode: the local `div`
    stack,           \* encode: the local `stack`
    wide,            \* encode: TRUE on the wide (native arithmetic) path
    ret              \* what the last call returned

alphabet == <<base, vals>>
locals == <<rep, val, radix, rem, div, stack, wide>>
vars == <<overflow_checks, base, vals, ctor, pc, call, prev, rep, val, radix,
          rem, div, stack, wide, ret>>

\* locals of a call that has not started or has returned
NoLocals ==
    /\ rep' = <<>>
    /\ val' = 0
    /\ radix' = 0
    /\ rem' = 0
    /\ div' = 0
    /\ stack' = <<>>
    /\ wide' = FALSE

Init ==
    /\ overflow_checks \in BOOLEAN
    /\ base = <<>>
    /\ vals = <<>>
    /\ ctor = NoCall
    /\ pc = "init"
    /\ call = NoCall
    /\ prev = NoCall
    /\ rep = <<>>
    /\ val = 0
    /\ radix = 0
    /\ rem = 0
    /\ div = 0
    /\ stack = <<>>
    /\ wide = FALSE
    /\ ret = NoResult

(***************************************************************************)
(* Construction.                                                           *)
(***************************************************************************)
\* HashMap::insert: the map afterwards (a later insert replaces the value)
MapInsert(m, c, i) == (c :> i) @@ m

\* from_str that reports the duplicate's second position one-based
RECURSIVE FromStrLoopOneBased(_, _, _)
FromStrLoopOneBased(s, i, vs) ==
    IF i >= Len(s)
    THEN [kind |-> "Ok", vals |-> vs]
    ELSE LET c == s[i + 1]
         IN  IF c \in DOMAIN vs
             THEN DuplicateCharacterError(c, vs[c], i + 1)
             ELSE FromStrLoopOneBased(s, i + 1, MapInsert(vs, c, i))

\* the for loop of from_str from zero-based index i on, with map vs
RECURSIVE FromStrLoop(_, _, _)
FromStrLoop(s, i, vs) ==
    IF i >= Len(s)
    THEN [kind |-> "Ok", vals |-> vs]
    ELSE LET c == s[i + 1]
         IN  IF c \in DOMAIN vs
             THEN DuplicateCharacterError(c, vs[c], i)
             ELSE FromStrLoop(s, i + 1, MapInsert(vs, c, i))

\* <Base as FromStr>::from_str
FromStrCall(s) ==
    /\ LET r == FromStrLoop(s, 0, <<>>)
       IN  /\ ctor' = [op |-> "from_str", src |-> s, res |-> r.kind]
           /\ IF r.kind = "Ok"
              THEN /\ base' = s
                   /\ vals' = r.vals
                   /\ ret' = NoResult
                   /\ pc' = "idle"
              ELSE /\ UNCHANGED alphabet
                   /\ ret' = r
                   /\ pc' = "rejected"
    /\ UNCHANGED <<overflow_checks, call, prev, locals>>

FromStr ==
    /\ pc = "init"
    /\ \E s \in SourceStrings : FromStrCall(s)

\* chars().enumerate().map(|(i, c)| (c, i)).collect() from index i on
RECURSIVE CollectVals(_, _, _)
CollectVals(s, i, vs) ==
    IF i >= Len(s) THEN vs ELSE CollectVals(s, i + 1, MapInsert(vs, s[i + 1], i))

\* Base::new
NewCall(s) ==
    /\ ctor' = [op |-> "new", src |-> s, res |-> "Ok"]
    /\ base' = s
    /\ vals' = CollectVals(s, 0, <<>>)
    /\ pc' = "idle"
    /\ UNCHANGED <<overflow_checks, call, prev, locals, ret>>

New ==
    /\ pc = "init"
    /\ \E s \in SourceStrings : NewCall(s)

(***************************************************************************)
(* Returning from a call, and aborting.                                    *)
(***************************************************************************)
Return(r) ==
    /\ ret' = r
    /\ pc' = "returned"
    /\ NoLocals

\* a panic unwinds out of the call: nothing is returned
Panic ==
    /\ pc' = "panic"
    /\ ret' = NoResult
    /\ UNCHANGED locals

(***************************************************************************)
(* decode: the decode! macro, and the usize impl.                          *)
(***************************************************************************)
\* usize arithmetic whose exact result is n: the value, or the overflow panic
UsizeArith(n) ==
    IF n <= UsizeMax
    THEN [panic |-> FALSE, v |-> n]
    ELSE IF overflow_checks
         THEN [panic |-> TRUE, v |-> 0]
         ELSE [panic |-> FALSE, v |-> n % 2^Bits("usize")]

\* a narrowing that rejects T::MAX itself
TryFromUsizeExclusive(T, n) == IF n < MaxOf(T) THEN OkInt(n) ELSE ErrTry

\* <T>::try_from(n) for n: usize
TryFromUsize(T, n) == IF n <= MaxOf(T) THEN OkInt(n) ELSE ErrTry

\* the value decode returns once every character is consumed
DecodeResult(T, n) == IF T = "usize" THEN OkInt(n) ELSE TryFromUsize(T, n)

\* entry of decode::<T>(rep), called with the result of call p (or NoCall)
DecodeStart(T, s, p) ==
    /\ pc \in {"idle", "returned"}
    /\ call' = [op |-> "decode", ty |-> T, in |-> s]
    /\ prev' = p
    /\ rep' = s
    /\ val' = 0
    /\ radix' = Len(base)
    /\ rem' = 0
    /\ div' = 0
    /\ stack' = <<>>
    /\ wide' = FALSE
    /\ ret' = NoResult
    /\ pc' = "decode"
    /\ UNCHANGED <<overflow_checks, alphabet, ctor>>

\* a caller's decode::<T>(s)
Decode ==
    /\ pc = "idle"
    /\ \E T \in Types : \E s \in RepStrings : DecodeStart(T, s, NoCall)

\* one iteration of `for c in rep.chars()`, or the return after the loop
DecodeStep ==
    /\ pc = "decode"
    /\ IF rep = <<>>
       THEN Return(DecodeResult(call.ty, val))
       ELSE LET c == Head(rep)
            IN  IF c \notin DOMAIN vals
                THEN Return(ErrUnknownChar(c))
                ELSE LET m == UsizeArith(val * radix)
                         a == UsizeArith(m.v + vals[c])
                     IN  IF m.panic \/ a.panic
                         THEN Panic
                         ELSE /\ val' = a.v
                              /\ rep' = Tail(rep)
                              /\ UNCHANGED <<pc, ret, radix, rem, div, stack, wide>>
    /\ UNCHANGED <<overflow_checks, alphabet, ctor, call, prev>>

(***************************************************************************)
(* encode: the usize impl, small_uint!, large_uint! and iint!.             *)
(***************************************************************************)
\* iint!: the unsigned type a signed value is cast to
UnsignedOf(T) ==
    CASE T = "i8" -> "u8"
      [] T = "i16" -> "u16"
      [] T = "i32" -> "u32"
      [] T = "i64" -> "u64"
      [] T = "i128" -> "u128"
      [] T = "isize" -> "usize"
      [] OTHER -> T

\* a cast that keeps the magnitude instead of the bit pattern
AsUnsignedMagnitude(T, v) == IF v < 0 THEN 0 - v ELSE v

\* `val as $utype`: the bit pattern of v read as unsigned
AsUnsigned(T, v) == IF IsSigned(T) THEN v % 2^Bits(T) ELSE v

\* a branch that sends every type down the narrow path
TakesNarrowPathAlways(U) == TRUE

\* large_uint!: the branch on the size of the type
TakesNarrowPath(U) == SizeOf(U) <= SizeOf("usize")

\* TRUE when encode of unsigned type U runs in the type's own arithmetic
IsWide(U) == U \in {"u32", "u64", "u128"} /\ ~TakesNarrowPath(U)

\* large_uint!, narrow branch: usize::try_from(val) fails
ValueConversionFails(U, u) ==
    U \in {"u32", "u64", "u128"} /\ TakesNarrowPath(U) /\ u > UsizeMax

\* large_uint!, wide branch: <$type>::try_from(self.base.len()) fails
RadixConversionFails(U) == IsWide(U) /\ Len(base) > MaxOf(U)

\* a loop body that subtracts the remainder but forgets to divide
DivRemNoDivide(n, r) == [rem |-> n % r, div |-> n - (n % r)]

\* rem = n % radix; div = n / radix
DivRem(n, r) == [rem |-> n % r, div |-> n \div r]

\* rem = n % rdx; stack.push(self.base[rem]); div = n / rdx, for value u;
\* on the wide path the index is usize::try_from(rem)?
PushDigit(n, rdx, w, u) ==
    LET dr == DivRem(n, rdx)
    IN  IF w /\ dr.rem > UsizeMax
        THEN Return(ErrTry)
        ELSE IF dr.rem >= Len(base)
             THEN Panic           \* index out of bounds
             ELSE /\ val' = u
                  /\ radix' = rdx
                  /\ rem' = dr.rem
                  /\ div' = dr.div
                  /\ wide' = w
                  /\ rep' = <<>>
                  /\ stack' = Append(stack, base[dr.rem + 1])
                  /\ pc' = "encode"
                  /\ ret' = NoResult

\* entry of encode(v: T) up to the while loop, called with the result of
\* call p (or NoCall)
EncodeStart(T, v, p) ==
    /\ pc \in {"idle", "returned"}
    /\ call' = [op |-> "encode", ty |-> T, in |-> v]
    /\ prev' = p
    /\ LET U == UnsignedOf(T)
           u == AsUnsigned(T, v)
           n == Len(base)
       IN  IF ValueConversionFails(U, u) \/ RadixConversionFails(U)
           THEN Return(ErrTry)
           ELSE IF n = 0
                THEN Panic        \* remainder with a divisor of zero
                ELSE PushDigit(u, n, IsWide(U), u)
    /\ UNCHANGED <<overflow_checks, alphabet, ctor>>

\* a caller's encode(v) for v: T
Encode ==
    /\ pc = "idle"
    /\ \E T \in Types : \E v \in Values(T) : EncodeStart(T, v, NoCall)

\* one iteration of `while div > 0`, or the reverse and return after it
EncodeStep ==
    /\ pc = "encode"
    /\ IF div > 0
       THEN /\ Len(stack) < MaxStack
            /\ PushDigit(div, radix, wide, val)
       ELSE Return(OkStr(Reverse(stack)))
    /\ UNCHANGED <<overflow_checks, alphabet, ctor, call, prev>>

(***************************************************************************)
(* A caller that feeds one conversion's result to the other, with the     *)
(* same type (tests.rs: encode a value, decode its representation).       *)
(***************************************************************************)
DecodeEncoded ==
    /\ pc = "returned"
    /\ call.op = "encode"
    /\ prev = NoCall
    /\ ret.kind = "Ok"
    /\ DecodeStart(call.ty, ret.str, call)

EncodeDecoded ==
    /\ pc = "returned"
    /\ call.op = "decode"
    /\ prev = NoCall
    /\ ret.kind = "Ok"
    /\ EncodeStart(call.ty, ret.int, call)

\* the caller drops the result; the Base is ready for the next conversion
Drop ==
    /\ pc = "returned"
    /\ pc' = "idle"
    /\ call' = NoCall
    /\ prev' = NoCall
    /\ ret' = NoResult
    /\ UNCHANGED <<overflow_checks, alphabet, ctor, locals>>

Next ==
    \/ FromStr
    \/ New
    \/ Decode
    \/ Encode
    \/ DecodeStep
    \/ EncodeStep
    \/ DecodeEncoded
    \/ EncodeDecoded
    \/ Drop

Spec == Init /\ [][Next]_vars

(***************************************************************************)
(* Vocabulary of the properties: the numeral system as mathematics, with  *)
(* unbounded integers and digit values read off the digit table.          *)
(***************************************************************************)
Range(s) == { s[i] : i \in DOMAIN s }

\* no character occurs twice in s
NoRepeat(s) == \A i, j \in DOMAIN s : s[i] = s[j] => i = j

\* the Base is a numeral system: its digit table has no repeated character
IsAlphabet == NoRepeat(base)

\* every character of s is a digit
InAlphabet(s) == \A i \in DOMAIN s : s[i] \in Range(base)

\* the zero-based position of digit c in the digit table
DigitValue(c) == CHOOSE d \in 0..(Len(base) - 1) : base[d + 1] = c

\* the positional value of s, most significant digit first
RECURSIVE PositionalValue(_)
PositionalValue(s) ==
    IF s = <<>>
    THEN 0
    ELSE PositionalValue(SubSeq(s, 1, Len(s) - 1)) * Len(base)
            + DigitValue(s[Len(s)])

\* s is the shortest string of its value: no leading zero digit
IsCanonical(s) == s # <<>> /\ (s[1] = base[1] => Len(s) = 1)

\* the leftmost character of s that is not a digit
LeftmostUnknown(s) ==
    s[CHOOSE i \in DOMAIN s :
        /\ s[i] \notin Range(base)
        /\ \A j \in 1..(i - 1) : s[j] \in Range(base)]

\* v read as an unsigned integer of the width of T
BitPattern(T, v) == v % 2^Bits(T)

Decoding == call.op = "decode"
Encoding == call.op = "encode"
\* the call in progress was given the result of the other conversion
DecodingEncoded == Decoding /\ prev.op = "encode"
EncodingDecoded == Encoding /\ prev.op = "decode"

(***************************************************************************)
(* The claims.                                                             *)
(***************************************************************************)

C2_StringRoundTrip ==
    (IsAlphabet /\ Len(base) >= 2) =>
        /\ ( /\ Decoding
             /\ prev = NoCall
             /\ InAlphabet(call.in)
             /\ IsCanonical(call.in)
             /\ PositionalValue(call.in) <= MaxOf(call.ty) ) =>
                /\ pc # "panic"
                /\ pc = "returned" => ret.kind = "Ok"
        /\ ( /\ EncodingDecoded
             /\ InAlphabet(prev.in)
             /\ IsCanonical(prev.in)
             /\ PositionalValue(prev.in) <= MaxOf(prev.ty) ) =>
                /\ pc # "panic"
                /\ pc = "returned" => ret = OkStr(prev.in)

\* C3: decode is exact or a range error.  For every alphabet, type T and
\* string s of digits with positional value n, decode::<T>(s) returns
\* Ok(n) when n <= T::MAX and the conversion error when n > T::MAX; no
\* multiply-add step overflows.
C3_DecodeExactOrRangeError ==
    (IsAlphabet /\ Decoding /\ InAlphabet(call.in)) =>
        /\ pc # "panic"
        /\ pc = "returned" =>
              ret = IF PositionalValue(call.in) <= MaxOf(call.ty)
                    THEN OkInt(PositionalValue(call.in))
                    ELSE ErrTry

\* C4: unknown character.  For every alphabet, type T and string s with a
\* character that is not a digit, decode::<T>(s) returns UnknownChar with
\* the leftmost such character, whatever the digits before it are.
C4_UnknownCharacter ==
    (IsAlphabet /\ Decoding /\ ~InAlphabet(call.in)) =>
        /\ pc # "panic"
        /\ pc = "returned" => ret = ErrUnknownChar(LeftmostUnknown(call.in))

\* C6: alphabet invariant.  Every Base that construction returns has
\* radix >= 1, no repeated digit, and vals the exact inverse of base, in
\* every state after any sequence of decode and encode calls.
C6_AlphabetInvariant ==
    pc \notin {"init", "rejected"} =>
        /\ Len(base) >= 1
        /\ NoRepeat(base)
        /\ DOMAIN vals = Range(base)
        /\ \A i \in DOMAIN base : vals[base[i]] = i - 1

\* C8: no process-fatal failure.  Every decode and encode call on a Base
\* that construction returned ends by returning Ok or Err; none panics.
C8_NoPanic == pc # "panic"

C5_DuplicateDetection ==
    ctor.op = "from_str" =>
        LET s == ctor.src
        IN  /\ (pc = "rejected") = (ctor.res = "Err")
            /\ (ctor.res = "Err") = ~NoRepeat(s)
            /\ pc = "rejected" =>
                  /\ ret.kind = "Err"
                  /\ ret.second \in 0..(Len(s) - 1)
                  /\ ret.first \in 0..(ret.second - 1)
                  /\ ret.dup = s[ret.second + 1]
                  /\ ret.dup = s[ret.first + 1]
                  /\ \A i \in 0..(ret.first - 1) : s[i + 1] # ret.dup
                  /\ NoRepeat(SubSeq(s, 1, ret.second))

\* "baca" was rejected: 'a' at 1 and 3
C5_Witness ==
    /\ pc = "rejected"
    /\ ctor.op = "from_str"
    /\ Len(ctor.src) = 4
    /\ ret.dup = "a"
    /\ ret.first = 1
    /\ ret.second = 3

\* C7: encode yields the canonical representation of the bit pattern.
\* For every alphabet of radix >= 2, type T and value v, encode(v) returns
\* a non-empty string of digits whose positional value is v read as an
\* unsigned integer of T's width, with no leading zero digit unless it is
\* the single zero digit.
C7_EncodeCanonical ==
    (IsAlphabet /\ Len(base) >= 2 /\ Encoding) =>
        /\ pc # "panic"
        /\ pc = "returned" =>
              /\ ret.kind = "Ok"
              /\ InAlphabet(ret.str)
              /\ IsCanonical(ret.str)
              /\ PositionalValue(ret.str) = BitPattern(call.ty, call.in)
              /\ (call.in = 0) = (ret.str = <<base[1]>>)

\* a negative value of a wide type has been encoded
C7_Witness ==
    /\ pc = "returned"
    /\ Encoding
    /\ IsAlphabet
    /\ Len(base) >= 2
    /\ call.ty = "i128"
    /\ call.in = 0 - 1
    /\ ret.kind = "Ok"
    /\ Len(ret.str) >= 3

\* C10: encode never returns Err.  For every alphabet of radix >= 2,
\* encode returns Ok; the narrow path runs only on values that fit usize,
\* and on the wide path the radix fits the type and every remainder is
\* below the radix.
C10_EncodeNeverErr ==
    (Len(base) >= 2 /\ Encoding) =>
        /\ pc = "returned" => ret.kind = "Ok"
        /\ pc = "encode" =>
              /\ ~wide => (val <= UsizeMax /\ TakesNarrowPath(UnsignedOf(call.ty)))
              /\ wide => (radix <= MaxOf(UnsignedOf(call.ty)) /\ radix <= UsizeMax)
              /\ rem < radix

\* a u128 value above usize::MAX has been encoded on the wide path
C10_Witness ==
    /\ pc = "returned"
    /\ Encoding
    /\ Len(base) >= 2
    /\ call.ty = "u128"
    /\ call.in > UsizeMax
    /\ ret.kind = "Ok"

\* C9: termination.  decode consumes one character per step until it
\* returns or aborts.  With radix >= 2 every iteration of the encode loop
\* strictly decreases the quotient and emits one digit, at most as many
\* digits as the type has bits, and the loop is never stuck.  With radix 1
\* the loop returns when the quotient is 0 and otherwise keeps the quotient
\* unchanged and stays in the loop, so encode returns only for value 0.
C9_Termination ==
    /\ [][pc = "decode" =>
            \/ pc' \in {"returned", "panic"}
            \/ (pc' = "decode" /\ Len(rep') = Len(rep) - 1)]_vars
    /\ [](pc = "decode" => (Len(rep) <= Len(call.in) /\ ENABLED DecodeStep))
    /\ [][(pc = "encode" /\ radix >= 2) =>
            \/ (div = 0 /\ pc' = "returned")
            \/ /\ div > 0
               /\ pc' = "encode"
               /\ div' < div
               /\ Len(stack') = Len(stack) + 1]_vars
    /\ []((pc = "encode" /\ radix >= 2) =>
            /\ Len(stack) <= Bits(call.ty)
            /\ ENABLED EncodeStep)
    /\ [][(pc = "encode" /\ radix = 1) =>
            \/ (div = 0 /\ pc' = "returned")
            \/ (div > 0 /\ pc' = "encode" /\ div' = div)]_vars
    /\ []((Encoding /\ Len(base) = 1 /\ pc = "returned") =>
            BitPattern(call.ty, call.in) = 0)

\* the encode loop has emitted as many digits as u128 has bits
C9_Witness ==
    /\ pc = "encode"
    /\ call.ty = "u128"
    /\ radix = 2
    /\ div = 0
    /\ Len(stack) = Bits("u128")

=============================================================================
